---------------------------- MODULE Spec2Model ----------------------------
(***************************************************************************)
(* A model of the ARXML extraction and correlation functions of            *)
(* arxml_preprocessor.py: normalize_name, parse_service_interfaces,        *)
(* infer_cycle_time_from_name, parse_rbs_pdus, generate_pdu_metadata,      *)
(* extract_signal_compu_methods and infer_cycle_time_details, and of the   *)
(* order in which app.py calls them.                                       *)
(*                                                                         *)
(* Text on which the code works character by character (names given to    *)
(* normalize_name and to the cycle-time pattern, and the decimal text they *)
(* produce) is a sequence of one-character strings.  Text that the code    *)
(* only copies, compares or concatenates is a TLA+ string.  The result of  *)
(* Element.find is None (no element) or Some(text).  A Python dict is a    *)
(* function whose domain is its key set.                                   *)
(***************************************************************************)
EXTENDS Integers, Sequences, FiniteSets, TLC

VARIABLES
    name,            \* the text handed to the pure name functions
    out,             \* their results, one slot per call
    service_doc,     \* the parsed service document (read only)
    rbs_doc,         \* the parsed RBS document (read only)
    service_data,    \* outcome of parse_service_interfaces
    pdu_data,        \* outcome of parse_rbs_pdus
    final_metadata,  \* outcome of generate_pdu_metadata
    compu_data       \* outcome of extract_signal_compu_methods

vars == <<name, out, service_doc, rbs_doc, service_data, pdu_data,
          final_metadata, compu_data>>

---------------------------------------------------------------------------
(* Bounds of the explored inputs.                                          *)

MaxTokens == 3
MaxNameLen == 6
MaxInterfaces == 2
MaxMappings == 2
MaxPdus == 2
MaxSignals == 2

---------------------------------------------------------------------------
(* Optional values: what Element.find returns.                             *)

None == <<>>
Some(v) == <<v>>
IsNone(x) == Len(x) = 0
IsSome(x) == Len(x) = 1
Text(x) == x[1]

(* Outcome of a call: not made yet, returned a value, or raised.           *)
NotCalled == [kind |-> "none"]
Return(v) == [kind |-> "return", value |-> v]
Raise(e) == [kind |-> "raise", exc |-> e]
Returned(r) == r.kind = "return"
Raised(r) == r.kind = "raise"

(* A dict that keeps the value a key got first.                            *)
PutKeepsFirst(m, k, v) ==
    [x \in (DOMAIN m) \cup {k} |-> IF x \in DOMAIN m THEN m[x] ELSE v]

(* dict[k] = v                                                             *)
Put(m, k, v) == [x \in (DOMAIN m) \cup {k} |-> IF x = k THEN v ELSE m[x]]
EmptyDict == <<>>

---------------------------------------------------------------------------
(* Characters.                                                             *)

UpperCase == <<"A","B","C","D","E","F","G","H","I","J","K","L","M",
               "N","O","P","Q","R","S","T","U","V","W","X","Y","Z">>
LowerCase == <<"a","b","c","d","e","f","g","h","i","j","k","l","m",
               "n","o","p","q","r","s","t","u","v","w","x","y","z">>
DigitChars == <<"0","1","2","3","4","5","6","7","8","9">>
NL == "\n"

IsUpper(c) == \E i \in 1..Len(UpperCase) : UpperCase[i] = c
IsDigit(c) == \E i \in 1..Len(DigitChars) : DigitChars[i] = c
DigitVal(c) == CHOOSE v \in 0..9 : DigitChars[v + 1] = c

(* str.lower() on the characters the model uses.                           *)
LowerChar(c) ==
    IF IsUpper(c)
    THEN LowerCase[CHOOSE i \in 1..Len(UpperCase) : UpperCase[i] = c]
    ELSE c
StrLower(s) == [i \in 1..Len(s) |-> LowerChar(s[i])]

(* str.replace(old, new): the non-overlapping occurrences of old, found    *)
(* left to right in one pass, are replaced; the result is not rescanned.   *)
RECURSIVE StrReplace(_, _, _)
StrReplace(s, old, new) ==
    IF Len(s) < Len(old) THEN s
    ELSE IF SubSeq(s, 1, Len(old)) = old
         THEN new \o StrReplace(SubSeq(s, Len(old) + 1, Len(s)), old, new)
         ELSE <<s[1]>> \o StrReplace(Tail(s), old, new)

SomeIp == <<"S","o","m","e","I","p">>
UnderscoreSI == <<"_","S","I">>
Underscore == <<"_">>
Empty == <<>>

(* normalize_name without its .lower().                                    *)
normalize_name_keeps_case(n) ==
    StrReplace(StrReplace(StrReplace(n, SomeIp, Empty), UnderscoreSI, Empty),
               Underscore, Empty)

normalize_name(n) ==
    StrLower(StrReplace(StrReplace(StrReplace(n, SomeIp, Empty),
                                   UnderscoreSI, Empty),
                        Underscore, Empty))

---------------------------------------------------------------------------
(* The cycle-time pattern  r'_([0-9]{2,4})$'  under re.search.             *)

(* '$' without re.MULTILINE: the end of the text, or the position just     *)
(* before a newline that is the last character of the text.                *)
AtDollar(s, p) ==
    \/ p = Len(s)
    \/ p = Len(s) - 1 /\ s[Len(s)] = NL

(* A match starts at i (the underscore) and takes k digits.                *)
PatternMatchesAt(s, i, k) ==
    /\ i + k <= Len(s)
    /\ s[i] = "_"
    /\ \A j \in (i + 1)..(i + k) : IsDigit(s[j])
    /\ AtDollar(s, i + k)

StartsOfMatch(s) ==
    {i \in 1..Len(s) : \E k \in 2..4 : PatternMatchesAt(s, i, k)}

(* re.search: the leftmost start, the quantifier greedy; group(1) or None. *)
CycleSearch(s) ==
    IF StartsOfMatch(s) = {} THEN None
    ELSE LET i == CHOOSE a \in StartsOfMatch(s) :
                      \A b \in StartsOfMatch(s) : a <= b
             k == CHOOSE a \in 2..4 :
                      /\ PatternMatchesAt(s, i, a)
                      /\ \A b \in 2..4 : PatternMatchesAt(s, i, b) => b <= a
         IN  Some(SubSeq(s, i + 1, i + k))

RECURSIVE IntOfDigits(_)
IntOfDigits(d) ==
    IF Len(d) = 0 THEN 0
    ELSE 10 * IntOfDigits(SubSeq(d, 1, Len(d) - 1)) + DigitVal(d[Len(d)])

RECURSIVE IntToStr(_)
IntToStr(n) ==
    IF n < 10 THEN <<DigitChars[n + 1]>>
    ELSE IntToStr(n \div 10) \o <<DigitChars[(n % 10) + 1]>>

(* str(float(d) / 1000): the shortest decimal text of d/1000, which for a  *)
(* d of at most four digits is the integer part, a point, and the three    *)
(* decimals without their trailing zeros (one decimal at least).           *)
MillisToSecondsStr(d) ==
    LET v == IntOfDigits(d)
        f == v % 1000
        frac == IF f % 100 = 0 THEN <<DigitChars[(f \div 100) + 1]>>
                ELSE IF f % 10 = 0
                     THEN <<DigitChars[(f \div 100) + 1],
                            DigitChars[((f \div 10) % 10) + 1]>>
                     ELSE <<DigitChars[(f \div 100) + 1],
                            DigitChars[((f \div 10) % 10) + 1],
                            DigitChars[(f % 10) + 1]>>
    IN  IntToStr(v \div 1000) \o <<".">> \o frac

NoneText == <<"N","o","n","e">>
ZeroSeconds == <<"0",".","0">>

infer_cycle_time_from_name(pdu_name) ==
    LET match == CycleSearch(pdu_name)
    IN  IF IsSome(match) THEN MillisToSecondsStr(Text(match)) ELSE ZeroSeconds

infer_cycle_time_details(pdu_name) ==
    LET match == CycleSearch(pdu_name)
    IN  IF IsSome(match)
        THEN <<Text(match), MillisToSecondsStr(Text(match))>>
        ELSE <<NoneText, ZeroSeconds>>

---------------------------------------------------------------------------
(* Inputs of the pure name functions.                                      *)

RECURSIVE SeqsUpTo(_, _)
SeqsUpTo(S, n) ==
    IF n = 0 THEN {<<>>}
    ELSE LET shorter == SeqsUpTo(S, n - 1)
         IN  shorter \cup {s \o <<x>> : s \in shorter, x \in S}

RECURSIVE Concat(_)
Concat(ss) == IF Len(ss) = 0 THEN <<>> ELSE Head(ss) \o Concat(Tail(ss))

(* Names built from the pieces that normalize_name removes and from the    *)
(* fragments that can join into such a piece once another is removed.      *)
NameTokens ==
    { SomeIp, UnderscoreSI, Underscore,
      <<"S","o">>, <<"m","e","I","p">>, <<"S","o","m","e">>, <<"I","p">>,
      <<"_","S">>, <<"I">>, <<"F","o","o">>, <<"s","i">> }
NormalizeInputs == {Concat(ts) : ts \in SeqsUpTo(NameTokens, MaxTokens)}

(* Every text of at most MaxNameLen characters over these.                 *)
CycleAlphabet == {"X", "_", "0", "1", NL}
CycleInputs == SeqsUpTo(CycleAlphabet, MaxNameLen)

NoOut == [normalized |-> None, renormalized |-> None,
          details |-> None, from_name |-> None]

NoDocs ==
    /\ service_doc = <<>>
    /\ rbs_doc = <<>>
    /\ service_data = NotCalled
    /\ pdu_data = NotCalled
    /\ final_metadata = NotCalled
    /\ compu_data = NotCalled

DocsUnchanged ==
    UNCHANGED <<service_doc, rbs_doc, service_data, pdu_data,
                final_metadata, compu_data>>

(* key = normalize_name(name)                                              *)
NormalizeName ==
    /\ IsNone(out.normalized)
    /\ out' = [out EXCEPT !.normalized = Some(normalize_name(name))]
    /\ UNCHANGED name
    /\ DocsUnchanged

(* The returned key is normalized once more.                               *)
NormalizeAgain ==
    /\ IsSome(out.normalized)
    /\ IsNone(out.renormalized)
    /\ out' = [out EXCEPT
                 !.renormalized = Some(normalize_name(Text(out.normalized)))]
    /\ UNCHANGED name
    /\ DocsUnchanged

InferCycleTimeDetails ==
    /\ IsNone(out.details)
    /\ out' = [out EXCEPT !.details = Some(infer_cycle_time_details(name))]
    /\ UNCHANGED name
    /\ DocsUnchanged

InferCycleTimeFromName ==
    /\ IsNone(out.from_name)
    /\ out' = [out EXCEPT
                 !.from_name = Some(infer_cycle_time_from_name(name))]
    /\ UNCHANGED name
    /\ DocsUnchanged

InitNormalize == name \in NormalizeInputs /\ out = NoOut /\ NoDocs
NextNormalize == NormalizeName \/ NormalizeAgain
SpecNormalize == InitNormalize /\ [][NextNormalize]_vars

InitCycle == name \in CycleInputs /\ out = NoOut /\ NoDocs
NextCycle == InferCycleTimeDetails \/ InferCycleTimeFromName
SpecCycle == InitCycle /\ [][NextCycle]_vars

---------------------------------------------------------------------------
(* parse_service_interfaces.                                               *)
(*                                                                         *)
(* The service document is the sequence, in document order, of its         *)
(* SOMEIP-SERVICE-INTERFACE-DEPLOYMENT elements:                           *)
(*   [short_name : None | Some(characters), service_id : None | Some(text),*)
(*    events : sequence of EVENT-ID, each None | Some(text)]               *)

RECURSIVE JoinComma(_)
JoinComma(ids) ==
    IF Len(ids) = 0 THEN ""
    ELSE IF Len(ids) = 1 THEN ids[1]
         ELSE ids[1] \o "," \o JoinComma(Tail(ids))

(* event_ids: the text of every event deployment that has an EVENT-ID.     *)
RECURSIVE EventIds(_)
EventIds(events) ==
    IF Len(events) = 0 THEN <<>>
    ELSE IF IsSome(Head(events))
         THEN <<Text(Head(events))>> \o EventIds(Tail(events))
         ELSE EventIds(Tail(events))

ServiceRecord(si) ==
    [service_interface |-> Text(si.short_name),
     service_id |-> IF IsSome(si.service_id) THEN Text(si.service_id) ELSE "",
     event_ids |-> JoinComma(EventIds(si.events))]

ServiceKey(si) == normalize_name(Text(si.short_name))

(* A loop that passes over an element without SHORT-NAME.                  *)
RECURSIVE ServiceLoopSkipsUnnamed(_, _, _)
ServiceLoopSkipsUnnamed(doc, i, service_map) ==
    IF i > Len(doc) THEN Return(service_map)
    ELSE IF IsNone(doc[i].short_name)
         THEN ServiceLoopSkipsUnnamed(doc, i + 1, service_map)
         ELSE ServiceLoopSkipsUnnamed(doc, i + 1,
                  Put(service_map, normalize_name(Text(doc[i].short_name)),
                      ServiceRecord(doc[i])))

(* The loop over the elements from the i-th on; None has no attribute      *)
(* 'text', so a missing SHORT-NAME raises AttributeError out of the call.  *)
RECURSIVE ServiceLoop(_, _, _)
ServiceLoop(doc, i, service_map) ==
    IF i > Len(doc) THEN Return(service_map)
    ELSE IF IsNone(doc[i].short_name) THEN Raise("AttributeError")
         ELSE ServiceLoop(doc, i + 1,
                          Put(service_map, ServiceKey(doc[i]),
                              ServiceRecord(doc[i])))

parse_service_interfaces(doc) == ServiceLoop(doc, 1, EmptyDict)

---------------------------------------------------------------------------
(* parse_rbs_pdus.                                                         *)
(*                                                                         *)
(* The RBS document is a record of the sequences, in document order, of    *)
(*   signals      : the I-SIGNAL elements                                  *)
(*                  [short_name, length, phys_props, sw_data_def,          *)
(*                   phys_first]                                           *)
(*   pdus         : the I-SIGNAL-I-PDU elements                            *)
(*                  [short_name, length, mappings], a mapping being        *)
(*                  [signal_ref, start_position, byte_order]               *)
(*   compu_methods: the COMPU-METHOD elements [short_name, scales]         *)
(*   data_types   : the APPLICATION-DATA-TYPE elements                     *)
(* A reference text "/a/b" is the sequence of its segments <<"a", "b">>,   *)
(* and a start position is a sequence of digit characters.                 *)

LastSegment(ref) == ref[Len(ref)]

RECURSIVE SignalLengthLoop(_, _, _)
SignalLengthLoop(signals, i, signal_length_map) ==
    IF i > Len(signals) THEN Return(signal_length_map)
    ELSE IF IsNone(signals[i].short_name) THEN Raise("AttributeError")
         ELSE SignalLengthLoop(signals, i + 1,
                  Put(signal_length_map, Text(signals[i].short_name),
                      IF IsSome(signals[i].length)
                      THEN Text(signals[i].length) ELSE "0"))

(* dict.get(key, default)                                                  *)
Get(m, k, default) == IF k \in DOMAIN m THEN m[k] ELSE default

(* A layout whose start bit is 0 when START-POSITION is absent.            *)
SignalLayoutZeroStart(mapping, signal_length_map) ==
    [value |-> 0,
     Byte_order |-> IF IsSome(mapping.byte_order)
                    THEN Text(mapping.byte_order) ELSE "Unknown",
     start_bit |-> IF IsSome(mapping.start_position)
                   THEN IntOfDigits(Text(mapping.start_position)) ELSE 0,
     len |-> Get(signal_length_map,
                 LastSegment(Text(mapping.signal_ref)), "0")]

(* The record stored under sig_name; field X stands for the key            *)
(* f"{sig_name}_X".                                                        *)
SignalLayout(mapping, signal_length_map) ==
    [value |-> 0,
     Byte_order |-> IF IsSome(mapping.byte_order)
                    THEN Text(mapping.byte_order) ELSE "Unknown",
     start_bit |-> IF IsSome(mapping.start_position)
                   THEN IntOfDigits(Text(mapping.start_position)) ELSE -1,
     len |-> Get(signal_length_map,
                 LastSegment(Text(mapping.signal_ref)), "0")]

(* The loop over a PDU's mappings: <<signals, signal_count>>.              *)
RECURSIVE MappingLoop(_, _, _, _, _)
MappingLoop(mappings, i, signal_length_map, signals, signal_count) ==
    IF i > Len(mappings) THEN <<signals, signal_count>>
    ELSE IF IsSome(mappings[i].signal_ref)
         THEN MappingLoop(mappings, i + 1, signal_length_map,
                  Put(signals, LastSegment(Text(mappings[i].signal_ref)),
                      SignalLayout(mappings[i], signal_length_map)),
                  signal_count + 1)
         ELSE MappingLoop(mappings, i + 1, signal_length_map,
                          signals, signal_count)

UnnamedPdu == <<"U","n","n","a","m","e","d","_","P","D","U">>

PduName(pdu) ==
    IF IsSome(pdu.short_name) THEN Text(pdu.short_name) ELSE UnnamedPdu

PduRecord(pdu, signal_length_map) ==
    LET r == MappingLoop(pdu.mappings, 1, signal_length_map, EmptyDict, 0)
    IN  [length |-> IF IsSome(pdu.length) THEN Text(pdu.length) ELSE "0",
         cycle_time |-> infer_cycle_time_from_name(PduName(pdu)),
         signals |-> r[1],
         total_signals |-> r[2]]

RECURSIVE PduLoop(_, _, _, _)
PduLoop(pdus, i, signal_length_map, pdu_map) ==
    IF i > Len(pdus) THEN pdu_map
    ELSE PduLoop(pdus, i + 1, signal_length_map,
                 Put(pdu_map, PduName(pdus[i]),
                     PduRecord(pdus[i], signal_length_map)))

parse_rbs_pdus(doc) ==
    LET lengths == SignalLengthLoop(doc.signals, 1, EmptyDict)
    IN  IF Raised(lengths) THEN lengths
        ELSE Return(PduLoop(doc.pdus, 1, lengths.value, EmptyDict))

---------------------------------------------------------------------------
(* generate_pdu_metadata.                                                  *)

NotApplicable == <<"N","/","A">>
NoService ==
    [service_interface |-> NotApplicable, service_id |-> "", event_ids |-> ""]

(* A lookup by the raw PDU name.                                           *)
LookupKeyRaw(pdu_name) == pdu_name
LookupKey(pdu_name) == normalize_name(pdu_name)

UnifiedMessage(service_map, pdu_name, pdu_info) ==
    LET matched_service == Get(service_map, LookupKey(pdu_name), NoService)
    IN  [pdu_name |-> pdu_name,
         service_interface |-> matched_service.service_interface,
         service_id |-> matched_service.service_id,
         event_ids |-> matched_service.event_ids,
         length |-> pdu_info.length,
         cycle_time |-> pdu_info.cycle_time,
         total_signals |-> pdu_info.total_signals,
         signals |-> pdu_info.signals]

generate_pdu_metadata(service_map, pdu_map) ==
    Return([Messages |->
              [p \in DOMAIN pdu_map |->
                 UnifiedMessage(service_map, p, pdu_map[p])]])

---------------------------------------------------------------------------
(* extract_signal_compu_methods.                                           *)
(*                                                                         *)
(* A COMPU-METHOD is [short_name : None | Some(characters),                *)
(* scales : sequence of [lower_limit : None | Some(characters),            *)
(* vt : None | Some(text)]].  An I-SIGNAL has phys_props : None |          *)
(* Some([sw_data_def : None | Some([data_type_ref, compu_method_ref])]),   *)
(* its own sw_data_def : None | Some([compu_method_ref]), and phys_first,  *)
(* which tells whether PHYSICAL-PROPS precedes that element in the         *)
(* document.  An APPLICATION-DATA-TYPE is [dest, text, compu_method_ref].  *)

HexChars == <<"0","1","2","3","4","5","6","7","8","9",
              "A","B","C","D","E","F">>

RECURSIVE IntToHex(_)
IntToHex(n) ==
    IF n < 16 THEN <<HexChars[n + 1]>>
    ELSE IntToHex(n \div 16) \o <<HexChars[(n % 16) + 1]>>

(* str.isdigit()                                                           *)
StrIsDigit(s) == Len(s) > 0 /\ \A i \in 1..Len(s) : IsDigit(s[i])

HexValue(lower_limit) ==
    IF StrIsDigit(lower_limit)
    THEN <<"0","x">> \o IntToHex(IntOfDigits(lower_limit))
    ELSE <<"0","x","0">>

CompuMethodEntry(compu_name, scale) ==
    LET lower_limit == IF IsSome(scale.lower_limit)
                       THEN Text(scale.lower_limit) ELSE <<"0">>
    IN  [signal_name |-> compu_name,
         raw_value |-> lower_limit,
         hex_value |-> HexValue(lower_limit),
         description |-> IF IsSome(scale.vt)
                         THEN Text(scale.vt) ELSE "No Description"]

ScaleEntries(compu_name, scales) ==
    [j \in 1..Len(scales) |-> CompuMethodEntry(compu_name, scales[j])]

RECURSIVE CompuMethodLoop(_, _, _)
CompuMethodLoop(cms, i, compu_methods) ==
    IF i > Len(cms) THEN Return(compu_methods)
    ELSE IF IsNone(cms[i].short_name) THEN Raise("AttributeError")
         ELSE CompuMethodLoop(cms, i + 1,
                  compu_methods \o
                  ScaleEntries(Text(cms[i].short_name), cms[i].scales))

(* root.find(".//autosar:APPLICATION-DATA-TYPE[@DEST='...' and .='path']") *)
(* ElementTree's path language has the predicates [@a], [@a='v'], [tag],   *)
(* [.='t'], [tag='t'] and [n] only; a predicate joining two of them with   *)
(* 'and' is rejected as "invalid predicate" when the path is prepared,     *)
(* before any element is looked at, whatever the document holds.           *)
FindDataType(data_types, data_type_path) == Raise("SyntaxError")

(* Path (a): the reference found through PHYSICAL-PROPS, if any.           *)
PathA(doc, signal) ==
    IF IsNone(signal.phys_props) THEN Return(None)
    ELSE IF IsNone(Text(signal.phys_props).sw_data_def) THEN Return(None)
    ELSE LET data_type_ref ==
                 Text(Text(signal.phys_props).sw_data_def).data_type_ref
         IN  IF IsNone(data_type_ref) THEN Return(None)
             ELSE LET data_type ==
                          FindDataType(doc.data_types, Text(data_type_ref))
                  IN  IF Raised(data_type) THEN data_type
                      ELSE IF IsNone(data_type.value) THEN Return(None)
                      ELSE Return(Text(data_type.value).compu_method_ref)

(* signal.find('.//autosar:SW-DATA-DEF-PROPS'): the first such descendant  *)
(* in document order, which is the one inside PHYSICAL-PROPS when that     *)
(* comes first.                                                            *)
FirstSwDataDef(signal) ==
    LET inner == IF IsSome(signal.phys_props)
                 THEN Text(signal.phys_props).sw_data_def ELSE None
    IN  IF IsSome(inner) /\ (signal.phys_first \/ IsNone(signal.sw_data_def))
        THEN inner
        ELSE signal.sw_data_def

(* Path (b), taken when path (a) gave no reference.                        *)
PathB(signal) ==
    LET sw_data_def == FirstSwDataDef(signal)
    IN  IF IsSome(sw_data_def) THEN Text(sw_data_def).compu_method_ref
        ELSE None

NoCompuMethod ==
    <<"0",".","N","o","C","o","m","p","u","M","e","t","h","o","d">>

(* for compu in compu_methods: ... break / else                            *)
CompuString(compu_methods, compu_name) ==
    LET hits == {j \in 1..Len(compu_methods) :
                    compu_methods[j].signal_name = compu_name}
    IN  IF hits = {} THEN NoCompuMethod
        ELSE LET first == CHOOSE j \in hits : \A h \in hits : j <= h
             IN  compu_methods[first].raw_value \o <<".">> \o compu_name

RECURSIVE SignalCompuLoop(_, _, _, _)
SignalCompuLoop(doc, i, compu_methods, signal_compu_map) ==
    IF i > Len(doc.signals) THEN Return(<<compu_methods, signal_compu_map>>)
    ELSE IF IsNone(doc.signals[i].short_name) THEN Raise("AttributeError")
    ELSE LET signal == doc.signals[i]
             a == PathA(doc, signal)
         IN  IF Raised(a) THEN a
             ELSE LET compu_method_ref ==
                          IF IsSome(a.value) THEN a.value ELSE PathB(signal)
                  IN  SignalCompuLoop(doc, i + 1, compu_methods,
                          Put(signal_compu_map, Text(signal.short_name),
                              IF IsSome(compu_method_ref)
                              THEN CompuString(compu_methods,
                                       LastSegment(Text(compu_method_ref)))
                              ELSE NoCompuMethod))

extract_signal_compu_methods(doc) ==
    LET compu_methods == CompuMethodLoop(doc.compu_methods, 1, <<>>)
    IN  IF Raised(compu_methods) THEN compu_methods
        ELSE SignalCompuLoop(doc, 1, compu_methods.value, EmptyDict)

---------------------------------------------------------------------------
(* The documents explored.                                                 *)

A_SI == <<"A","_","S","I">>
UnderA == <<"_","a">>
A_10 == <<"A","_","1","0">>

ServiceNames == {Some(A_SI), Some(UnderA), Some(<<"B">>), None}
ServiceIds == {Some("42"), None}
EventLists == {<<>>, <<Some("7")>>, <<Some("7"), None, Some("9")>>}
ServiceElements ==
    [short_name : ServiceNames, service_id : ServiceIds, events : EventLists]
ServiceDocs == SeqsUpTo(ServiceElements, MaxInterfaces)

Interface(n, id, evs) == [short_name |-> n, service_id |-> id, events |-> evs]
ServiceFixtures ==
    { <<Interface(Some(A_SI), Some("42"), <<Some("7")>>),
        Interface(Some(UnderA), None, <<>>)>>,
      <<Interface(Some(<<"B">>), Some("42"), <<Some("7"), Some("9")>>)>> }

PlainSignal(n, l) ==
    [short_name |-> n, length |-> l, phys_props |-> None,
     sw_data_def |-> None, phys_first |-> TRUE]
ChainSignal(n, phys, sw, first) ==
    [short_name |-> n, length |-> Some("16"), phys_props |-> phys,
     sw_data_def |-> sw, phys_first |-> first]
Props(dt, cm) == Some([data_type_ref |-> dt, compu_method_ref |-> cm])
Phys(sw) == Some([sw_data_def |-> sw])

(* References; the last segment of a compu-method reference is the name   *)
(* of the method, kept as characters since it ends up in the string        *)
(* "<raw_value>.<name>".                                                   *)
RefM == Some(<<"", "Compu", <<"M">>>>)
RefZ == Some(<<"", "Compu", <<"Z">>>>)
RefT == Some(<<"", "Types", "T">>)
RefU == Some(<<"", "Types", "U">>)

Scale(l) == [lower_limit |-> l, vt |-> Some("on")]
MethodM ==
    [short_name |-> Some(<<"M">>),
     scales |-> <<Scale(Some(<<"1","6">>)), Scale(Some(<<"3","2">>))>>]
MethodN ==
    [short_name |-> Some(<<"N">>),
     scales |-> <<Scale(None), [lower_limit |-> Some(<<"-","1">>),
                                vt |-> None]>>]
TypeT ==
    [dest |-> "APPLICATION-PRIMITIVE-DATA-TYPE",
     text |-> <<"", "Types", "T">>,
     compu_method_ref |-> Some(<<"", "Compu", <<"N">>>>)]

SignalLists ==
    { <<>>,
      <<PlainSignal(Some("Engine_RPM"), Some("16"))>>,
      <<PlainSignal(Some("Engine_RPM"), None)>>,
      <<PlainSignal(Some("Engine_RPM"), Some("16")),
        PlainSignal(Some("Engine_RPM"), Some("32"))>>,
      <<PlainSignal(None, Some("16"))>>,
      <<ChainSignal(Some("Engine_RPM"), None, Props(None, RefM), TRUE)>> }

RefRPM == Some(<<"", "Signals", "Engine_RPM">>)
RefSpeed == Some(<<"", "Signals", "Speed">>)
Mapping(r, st, bo) ==
    [signal_ref |-> r, start_position |-> st, byte_order |-> bo]
FullMapping ==
    Mapping(RefRPM, Some(<<"8">>), Some("MOST-SIGNIFICANT-BYTE-FIRST"))
MappingElements ==
    { FullMapping,
      Mapping(RefRPM, None, None),
      Mapping(RefSpeed, Some(<<"1","6">>),
              Some("LEAST-SIGNIFICANT-BYTE-FIRST")),
      Mapping(None, Some(<<"0">>), Some("MOST-SIGNIFICANT-BYTE-FIRST")) }

Pdu(n, l, ms) == [short_name |-> n, length |-> l, mappings |-> ms]
PduHeads ==
    { <<Some(A_10), Some("64")>>, <<Some(A_10), None>>,
      <<Some(A_SI), Some("8")>>, <<None, Some("64")>> }

(* One PDU with every sequence of at most MaxMappings mappings, and at     *)
(* most MaxPdus PDUs with no mapping or one.                               *)
PduLists ==
    {<<Pdu(h[1], h[2], ms)>> :
        h \in PduHeads, ms \in SeqsUpTo(MappingElements, MaxMappings)}
    \cup
    SeqsUpTo({Pdu(h[1], h[2], ms) :
                 h \in PduHeads, ms \in {<<>>, <<FullMapping>>}}, MaxPdus)

RbsDocs ==
    [signals : SignalLists, pdus : PduLists,
     compu_methods : {<<MethodM>>}, data_types : {<<>>}]

RbsFixtures ==
    { [signals |-> <<PlainSignal(Some("Engine_RPM"), Some("16"))>>,
       pdus |-> <<Pdu(Some(A_SI), Some("64"), <<FullMapping>>),
                  Pdu(Some(A_SI), None, <<>>),
                  Pdu(None, Some("8"), <<>>)>>,
       compu_methods |-> <<MethodM>>, data_types |-> <<>>],
      [signals |-> <<>>,
       pdus |-> <<Pdu(Some(A_10), Some("64"), <<FullMapping>>)>>,
       compu_methods |-> <<>>, data_types |-> <<>>] }

(* The signals of the compu-method resolver: each link of the chain        *)
(* present or missing.                                                     *)
CompuSignals ==
    { ChainSignal(None, None, None, TRUE),
      ChainSignal(Some("s1"), None, None, TRUE),
      ChainSignal(Some("s1"), None, Props(None, RefM), TRUE),
      ChainSignal(Some("s1"), None, Props(None, RefZ), TRUE),
      ChainSignal(Some("s2"), None, Props(None, None), TRUE),
      ChainSignal(Some("s2"), Phys(None), Props(None, RefM), TRUE),
      ChainSignal(Some("s2"), Phys(Props(None, None)), Props(None, RefM),
                  TRUE),
      ChainSignal(Some("s2"), Phys(Props(None, RefZ)), Props(None, RefM),
                  FALSE),
      ChainSignal(Some("s1"), Phys(Props(RefT, None)), Props(None, RefM),
                  TRUE),
      ChainSignal(Some("s2"), Phys(Props(RefU, None)), None, TRUE) }

CompuDocs ==
    [signals : SeqsUpTo(CompuSignals, MaxSignals),
     pdus : {<<>>},
     compu_methods : {<<>>, <<MethodM>>, <<MethodN, MethodM>>,
                      <<[short_name |-> None, scales |-> <<>>]>>},
     data_types : {<<>>, <<TypeT>>}]

ServiceMapRecords ==
    { [service_interface |-> A_SI, service_id |-> "42", event_ids |-> "7,9"],
      [service_interface |-> <<"B">>, service_id |-> "", event_ids |-> ""] }
ServiceMapKeys == {<<"a">>, <<"b">>, A_SI}
ServiceMaps == UNION {[K -> ServiceMapRecords] : K \in SUBSET ServiceMapKeys}

PduMapRecords ==
    { [length |-> "64", cycle_time |-> <<"0",".","1">>, total_signals |-> 1,
       signals |-> Put(EmptyDict, "Engine_RPM",
                       [value |-> 0,
                        Byte_order |-> "MOST-SIGNIFICANT-BYTE-FIRST",
                        start_bit |-> 8, len |-> "16"])],
      [length |-> "0", cycle_time |-> ZeroSeconds, total_signals |-> 0,
       signals |-> EmptyDict] }
PduMapKeys == {A_SI, <<"a">>, <<"_","B">>, A_10}
PduMaps == UNION {[K -> PduMapRecords] : K \in SUBSET PduMapKeys}

NoNames == name = <<>> /\ out = NoOut

---------------------------------------------------------------------------
(* The calls, in the order of app.py: the service document is parsed, then *)
(* the RBS document whatever the first call did, and the metadata are      *)
(* generated when both calls returned.                                     *)

ParseServiceInterfaces ==
    /\ service_data.kind = "none"
    /\ service_data' = parse_service_interfaces(service_doc)
    /\ UNCHANGED <<name, out, service_doc, rbs_doc, pdu_data,
                   final_metadata, compu_data>>

ParseRbsPdus ==
    /\ service_data.kind # "none"
    /\ pdu_data.kind = "none"
    /\ pdu_data' = parse_rbs_pdus(rbs_doc)
    /\ UNCHANGED <<name, out, service_doc, rbs_doc, service_data,
                   final_metadata, compu_data>>

GeneratePduMetadata ==
    /\ Returned(service_data)
    /\ Returned(pdu_data)
    /\ final_metadata.kind = "none"
    /\ final_metadata' =
           generate_pdu_metadata(service_data.value, pdu_data.value)
    /\ UNCHANGED <<name, out, service_doc, rbs_doc, service_data, pdu_data,
                   compu_data>>

ExtractSignalCompuMethods ==
    /\ compu_data.kind = "none"
    /\ compu_data' = extract_signal_compu_methods(rbs_doc)
    /\ UNCHANGED <<name, out, service_doc, rbs_doc, service_data, pdu_data,
                   final_metadata>>

Init ==
    /\ NoNames
    /\ \/ service_doc \in ServiceDocs /\ rbs_doc \in RbsFixtures
       \/ service_doc \in ServiceFixtures /\ rbs_doc \in RbsDocs
    /\ service_data = NotCalled
    /\ pdu_data = NotCalled
    /\ final_metadata = NotCalled
    /\ compu_data = NotCalled
Next == ParseServiceInterfaces \/ ParseRbsPdus \/ GeneratePduMetadata
Spec == Init /\ [][Next]_vars

InitCorrelate ==
    /\ NoNames
    /\ service_doc = <<>>
    /\ rbs_doc = <<>>
    /\ service_data \in {Return(m) : m \in ServiceMaps}
    /\ pdu_data \in {Return(m) : m \in PduMaps}
    /\ final_metadata = NotCalled
    /\ compu_data = NotCalled
NextCorrelate == GeneratePduMetadata
SpecCorrelate == InitCorrelate /\ [][NextCorrelate]_vars

InitCompu ==
    /\ NoNames
    /\ service_doc = <<>>
    /\ rbs_doc \in CompuDocs
    /\ service_data = NotCalled
    /\ pdu_data = NotCalled
    /\ final_metadata = NotCalled
    /\ compu_data = NotCalled
NextCompu == ExtractSignalCompuMethods
SpecCompu == InitCompu /\ [][NextCompu]_vars

---------------------------------------------------------------------------
(* C3: normalize_name is idempotent: normalizing the key it returned gives *)
(* that key again, also for names in which one removal lets a new          *)
(* "SomeIp" or "_SI" appear.                                               *)
NormalizeIdempotent ==
    IsSome(out.renormalized) => Text(out.renormalized) = Text(out.normalized)

(* "SoSomeIpmeIp": removing the inner "SomeIp" leaves "SomeIp".            *)
NormalizeIdempotentWitness ==
    /\ name = <<"S","o">> \o SomeIp \o <<"m","e","I","p">>
    /\ IsSome(out.renormalized)
    /\ Text(out.normalized) = <<"s","o","m","e","i","p">>

(* The name ends with an underscore and k digits.                          *)
EndsWithUnderscoreDigits(n, k) ==
    /\ Len(n) >= k + 1
    /\ n[Len(n) - k] = "_"
    /\ \A j \in (Len(n) - k + 1)..Len(n) : IsDigit(n[j])

(* What the claim gives for n.                                             *)
ClaimedCycleDetails(n) ==
    IF \E k \in 2..4 : EndsWithUnderscoreDigits(n, k)
    THEN LET k == CHOOSE a \in 2..4 : EndsWithUnderscoreDigits(n, a)
             d == SubSeq(n, Len(n) - k + 1, Len(n))
         IN  <<d, MillisToSecondsStr(d)>>
    ELSE <<NoneText, ZeroSeconds>>

(* C4: infer_cycle_time_details(n) is (d, d/1000 as text) when n ends with *)
(* an underscore followed by exactly 2, 3 or 4 digits that reach the end   *)
(* of n, and ("None", "0.0") otherwise; infer_cycle_time_from_name(n)      *)
(* returns the same seconds text.                                          *)
CycleTimeOnlyFromTrailingDigits ==
    /\ IsSome(out.details) => Text(out.details) = ClaimedCycleDetails(name)
    /\ IsSome(out.from_name) =>
           Text(out.from_name) = ClaimedCycleDetails(name)[2]


---------------------------------------------------------------------------
(* What the claims expect of the documents.                                *)

NamedInterfaces(doc) == \A i \in 1..Len(doc) : IsSome(doc[i].short_name)
NamedSignals(doc) ==
    \A i \in 1..Len(doc.signals) : IsSome(doc.signals[i].short_name)
NamedCompuMethods(doc) ==
    \A i \in 1..Len(doc.compu_methods) :
        IsSome(doc.compu_methods[i].short_name)

(* The i-th element is the last one of the document with its key.          *)
LastInterfaceOfKey(doc, i) ==
    \A j \in (i + 1)..Len(doc) :
        normalize_name(Text(doc[j].short_name))
            # normalize_name(Text(doc[i].short_name))
LastPduOfName(pdus, i) ==
    \A j \in (i + 1)..Len(pdus) : PduName(pdus[j]) # PduName(pdus[i])
LastSignalOfName(signals, i) ==
    \A j \in (i + 1)..Len(signals) :
        Text(signals[j].short_name) # Text(signals[i].short_name)
LastMappingOfSignal(mappings, i) ==
    \A j \in (i + 1)..Len(mappings) :
        IsSome(mappings[j].signal_ref) =>
            LastSegment(Text(mappings[j].signal_ref))
                # LastSegment(Text(mappings[i].signal_ref))

(* The length the signal-length pass has for a signal name: that of the    *)
(* last I-SIGNAL of that name, "0" when it has none or there is none.      *)
ExpectedSignalLen(signals, sig_name) ==
    LET same == {i \in 1..Len(signals) :
                    Text(signals[i].short_name) = sig_name}
    IN  IF same = {} THEN "0"
        ELSE LET last == CHOOSE i \in same : \A j \in same : j <= i
             IN  IF IsSome(signals[last].length)
                 THEN Text(signals[last].length) ELSE "0"

---------------------------------------------------------------------------
(* C2: generate_pdu_metadata(S, P) returns {"Messages": M} with one        *)
(* message per key of P; the message of p carries the service fields of    *)
(* S[normalize_name(p)] when that key is in S and "N/A", "", "" otherwise, *)
(* and the length, cycle time, signal count and signals of P[p]; the call  *)
(* does not fail.                                                          *)
CorrelateJoinsOnNormalizedName ==
    final_metadata.kind # "none" =>
        /\ Returned(final_metadata)
        /\ DOMAIN final_metadata.value = {"Messages"}
        /\ LET M == final_metadata.value.Messages
               S == service_data.value
               P == pdu_data.value
           IN  /\ DOMAIN M = DOMAIN P
               /\ \A p \in DOMAIN P :
                     /\ M[p].pdu_name = p
                     /\ IF normalize_name(p) \in DOMAIN S
                        THEN /\ M[p].service_interface =
                                    S[normalize_name(p)].service_interface
                             /\ M[p].service_id =
                                    S[normalize_name(p)].service_id
                             /\ M[p].event_ids =
                                    S[normalize_name(p)].event_ids
                        ELSE /\ M[p].service_interface = NotApplicable
                             /\ M[p].service_id = ""
                             /\ M[p].event_ids = ""
                     /\ M[p].length = P[p].length
                     /\ M[p].cycle_time = P[p].cycle_time
                     /\ M[p].total_signals = P[p].total_signals
                     /\ M[p].signals = P[p].signals

(* A PDU "A_SI" matched through the key "a" although "A_SI" is itself a    *)
(* key of S, beside a PDU with no service.                                 *)
CorrelateJoinsWitness ==
    /\ Returned(final_metadata)
    /\ A_SI \in DOMAIN pdu_data.value
    /\ A_10 \in DOMAIN pdu_data.value
    /\ {<<"a">>, A_SI} \subseteq DOMAIN service_data.value
    /\ service_data.value[<<"a">>] # service_data.value[A_SI]
    /\ final_metadata.value.Messages[A_SI].service_interface =
           service_data.value[<<"a">>].service_interface
    /\ final_metadata.value.Messages[A_10].service_interface = NotApplicable

(* C5: of the service-interface elements that normalize to one key the map *)
(* holds one entry, the record of the last of them, and of the PDU         *)
(* elements of one short name the record of the last.                      *)
LastWriteWins ==
    /\ Returned(service_data) =>
           /\ DOMAIN service_data.value =
                  {normalize_name(Text(service_doc[i].short_name)) :
                      i \in 1..Len(service_doc)}
           /\ \A i \in 1..Len(service_doc) :
                 LastInterfaceOfKey(service_doc, i) =>
                     LET r == service_data.value[
                                normalize_name(Text(service_doc[i].short_name))]
                     IN  /\ r.service_interface =
                                Text(service_doc[i].short_name)
                         /\ r.service_id =
                                (IF IsSome(service_doc[i].service_id)
                                 THEN Text(service_doc[i].service_id) ELSE "")
                         /\ r.event_ids =
                                JoinComma(EventIds(service_doc[i].events))
    /\ Returned(pdu_data) =>
           /\ DOMAIN pdu_data.value =
                  {PduName(rbs_doc.pdus[i]) : i \in 1..Len(rbs_doc.pdus)}
           /\ \A i \in 1..Len(rbs_doc.pdus) :
                 LastPduOfName(rbs_doc.pdus, i) =>
                     LET r == pdu_data.value[PduName(rbs_doc.pdus[i])]
                         m == rbs_doc.pdus[i].mappings
                     IN  /\ r = PduRecord(rbs_doc.pdus[i],
                                       SignalLengthLoop(rbs_doc.signals, 1,
                                                        EmptyDict).value)
                         /\ r.length =
                                (IF IsSome(rbs_doc.pdus[i].length)
                                 THEN Text(rbs_doc.pdus[i].length) ELSE "0")
                         /\ DOMAIN r.signals =
                                {LastSegment(Text(m[j].signal_ref)) :
                                    j \in {k \in 1..Len(m) :
                                              IsSome(m[k].signal_ref)}}

(* Two interfaces of key "a" with different records, and two PDUs named    *)
(* "A_SI" of which the first alone has a length and a signal.              *)
LastWriteWinsWitness ==
    /\ Returned(service_data)
    /\ Returned(pdu_data)
    /\ Len(service_doc) = 2
    /\ service_doc[1].short_name = Some(A_SI)
    /\ service_doc[2].short_name = Some(UnderA)
    /\ service_data.value[<<"a">>].service_interface = UnderA
    /\ service_doc[1].service_id # service_doc[2].service_id
    /\ Len(rbs_doc.pdus) = 3
    /\ PduName(rbs_doc.pdus[1]) = PduName(rbs_doc.pdus[2])
    /\ rbs_doc.pdus[1].length # rbs_doc.pdus[2].length
    /\ pdu_data.value[A_SI].length = "0"


(* A PDU without short name does not make parse_rbs_pdus fail and is      *)
(* recorded as "Unnamed_PDU".                                              *)
UnnamedPduIsRecorded ==
    /\ Raised(pdu_data) => ~NamedSignals(rbs_doc)
    /\ Returned(pdu_data) =>
           \A i \in 1..Len(rbs_doc.pdus) :
               IsNone(rbs_doc.pdus[i].short_name) =>
                   /\ UnnamedPdu \in DOMAIN pdu_data.value
                   /\ LastPduOfName(rbs_doc.pdus, i) =>
                          pdu_data.value[UnnamedPdu].length =
                              (IF IsSome(rbs_doc.pdus[i].length)
                               THEN Text(rbs_doc.pdus[i].length) ELSE "0")
(* An interface without short name makes parse_service_interfaces fail    *)
(* with the given error, no map returned and no metadata generated.        *)
MissingShortNameFailsWith(error) ==
    /\ (service_data.kind # "none" /\ ~NamedInterfaces(service_doc)) =>
           /\ Raised(service_data)
           /\ service_data.exc = error
           /\ "value" \notin DOMAIN service_data
           /\ final_metadata.kind = "none"
    /\ UnnamedPduIsRecorded
(* C6: a service-interface element without its short name makes            *)
(* parse_service_interfaces fail with MissingFieldError and return no map, *)
(* not even of the interfaces before it; a PDU without its short name      *)
(* never makes parse_rbs_pdus fail and is recorded as "Unnamed_PDU".       *)
MissingShortNameIsMissingFieldError ==
    MissingShortNameFailsWith("MissingFieldError")

(* C6 as amended: the failure is the AttributeError of reading the text of *)
(* the element that find did not return.                                   *)
MissingShortNameIsAttributeError ==
    MissingShortNameFailsWith("AttributeError")

(* The second interface has no short name, the first has one; and the RBS  *)
(* document, parsed after that failure, has a PDU without short name.      *)
MissingShortNameWitness ==
    /\ Len(service_doc) = 2
    /\ IsSome(service_doc[1].short_name)
    /\ IsNone(service_doc[2].short_name)
    /\ Raised(service_data)
    /\ Returned(pdu_data)
    /\ \E i \in 1..Len(rbs_doc.pdus) : IsNone(rbs_doc.pdus[i].short_name)
    /\ UnnamedPdu \in DOMAIN pdu_data.value

TotalSignalsCountsEntries ==
    /\ Returned(pdu_data) =>
           \A p \in DOMAIN pdu_data.value :
               pdu_data.value[p].total_signals =
                   Cardinality(DOMAIN pdu_data.value[p].signals)
    /\ Returned(final_metadata) =>
           \A p \in DOMAIN final_metadata.value.Messages :
               final_metadata.value.Messages[p].total_signals =
                   Cardinality(DOMAIN final_metadata.value.Messages[p].signals)

---------------------------------------------------------------------------
(* The compu-method string the claims give a signal: the reference of path *)
(* (a), through the first APPLICATION-DATA-TYPE of destination             *)
(* APPLICATION-PRIMITIVE-DATA-TYPE whose text is the data-type reference,  *)
(* else that of path (b); then the raw value of the first entry of that    *)
(* name.                                                                   *)
ClaimedPathA(doc, signal) ==
    IF IsNone(signal.phys_props) THEN None
    ELSE IF IsNone(Text(signal.phys_props).sw_data_def) THEN None
    ELSE LET data_type_ref ==
                 Text(Text(signal.phys_props).sw_data_def).data_type_ref
             hits == {j \in 1..Len(doc.data_types) :
                        /\ doc.data_types[j].dest =
                               "APPLICATION-PRIMITIVE-DATA-TYPE"
                        /\ IsSome(data_type_ref)
                        /\ doc.data_types[j].text = Text(data_type_ref)}
         IN  IF hits = {} THEN None
             ELSE doc.data_types[CHOOSE j \in hits : \A h \in hits : j <= h]
                      .compu_method_ref

ClaimedRef(doc, signal) ==
    IF IsSome(ClaimedPathA(doc, signal)) THEN ClaimedPathA(doc, signal)
    ELSE PathB(signal)

ClaimedCompuString(doc, signal) ==
    IF IsSome(ClaimedRef(doc, signal))
    THEN CompuString(CompuMethodLoop(doc.compu_methods, 1, <<>>).value,
                     LastSegment(Text(ClaimedRef(doc, signal))))
    ELSE NoCompuMethod

(* C8: the compu-method chain never makes extract_signal_compu_methods     *)
(* raise: whichever links are present, every signal has its entry in the   *)
(* result, and the entry is "0.NoCompuMethod" when no reference is found   *)
(* on either path or no entry has the referenced name.                     *)
CompuChainNeverRaises ==
    (compu_data.kind # "none" /\ NamedSignals(rbs_doc)
     /\ NamedCompuMethods(rbs_doc)) =>
        /\ Returned(compu_data)
        /\ DOMAIN compu_data.value[2] =
               {Text(rbs_doc.signals[i].short_name) :
                   i \in 1..Len(rbs_doc.signals)}
        /\ \A i \in 1..Len(rbs_doc.signals) :
              (/\ LastSignalOfName(rbs_doc.signals, i)
               /\ \/ IsNone(ClaimedRef(rbs_doc, rbs_doc.signals[i]))
                  \/ \A j \in 1..Len(compu_data.value[1]) :
                        compu_data.value[1][j].signal_name #
                            LastSegment(Text(ClaimedRef(rbs_doc,
                                                 rbs_doc.signals[i])))) =>
                  compu_data.value[2][Text(rbs_doc.signals[i].short_name)]
                      = NoCompuMethod

(* C9: the name comes from path (a) when it yields a reference and from    *)
(* path (b) only otherwise, and the string is "<raw_value>.<name>" with    *)
(* the raw value of the first entry of that name.                          *)
CompuPathAThenPathB ==
    (compu_data.kind # "none" /\ NamedSignals(rbs_doc)
     /\ NamedCompuMethods(rbs_doc)) =>
        /\ Returned(compu_data)
        /\ \A i \in 1..Len(rbs_doc.signals) :
              LastSignalOfName(rbs_doc.signals, i) =>
                  compu_data.value[2][Text(rbs_doc.signals[i].short_name)]
                      = ClaimedCompuString(rbs_doc, rbs_doc.signals[i])

(* C1: every signal record of the generated messages has a compu_method    *)
(* entry beside value, byte order, start bit and length: "0.NoCompuMethod" *)
(* when no chain resolves for the signal, "<raw_value>.<name>" otherwise.  *)
SignalRecordsCarryCompuMethod ==
    Returned(final_metadata) =>
        \A p \in DOMAIN final_metadata.value.Messages :
            LET g == final_metadata.value.Messages[p].signals
            IN  \A n \in DOMAIN g :
                    /\ {"value", "Byte_order", "start_bit", "len",
                        "compu_method"} \subseteq DOMAIN g[n]
                    /\ \A i \in 1..Len(rbs_doc.signals) :
                          (/\ Text(rbs_doc.signals[i].short_name) = n
                           /\ LastSignalOfName(rbs_doc.signals, i)) =>
                              g[n].compu_method =
                                  ClaimedCompuString(rbs_doc,
                                                     rbs_doc.signals[i])
                    /\ (\A i \in 1..Len(rbs_doc.signals) :
                           Text(rbs_doc.signals[i].short_name) # n) =>
                              g[n].compu_method = NoCompuMethod

=============================================================================
